---- MODULE Spec2Model ----
(***************************************************************************)
(* A model of python-flux: the triangle-mesh shape model and its two ray   *)
(* oracles (src/src/flux/shape.py) and the Neumann solver of the tutorial  *)
(* (src/tutorial.py).                                                      *)
(*                                                                         *)
(* Arrays are functions over 0..len-1, as numpy indexes them.  Reals are   *)
(* exact: vectors of the mesh have integer coordinates, the solver works   *)
(* on rationals <<n, d>> in lowest terms.  A Python call ends in an        *)
(* outcome [kind, exc, val]: kind "ok" with the returned value, or kind    *)
(* "raise" with the exception's class.                                     *)
(***************************************************************************)
EXTENDS Integers, Sequences, FiniteSets, TLC

VARIABLES
    V,        \* self.V : the vertices of the mesh
    F,        \* self.F : the three vertex indices of every face
    A,        \* self.A : area of every face
    P,        \* self.P : centroid of every face
    N,        \* self.N : normal of every face
    firstHit, \* the scene: the face a ray from point a toward point b strikes first
    aabbNear, \* the scene: what the AABB tree answers for two faces with one centroid
    occ,      \* the scene: is the ray leaving face i along direction d occluded
    cls,      \* type(self): the class the shape model was constructed as
    call,     \* the last query made on the shape model, with its arguments
    ret,      \* the outcome of that query
    heap,     \* the numpy arrays of the solver run, by object id
    sk,       \* the frame of solve_kernel_system
    ct,       \* the frame of compute_T
    applies,  \* the number of products L@v executed since the call began
    out,      \* the outcome of the solver call
    cent,     \* the projected centroid of every face of the operator's mesh
    asm,      \* the frame of assemble_using_quadtree
    FF,       \* the operator the assembly returned
    ap,       \* the frame of the product FF @ x
    cancel,   \* the cancellation signal of the running call
    hout,     \* the outcome of the last call made on the operator
    file,     \* the bytes FF.save wrote
    FF2       \* the operator from_file read back

\* the constructed model: its mesh, its scene and its class
modelVars == <<V, F, A, P, N, firstHit, aabbNear, occ, cls>>

shapeVars == <<modelVars, call, ret>>

solveVars == <<heap, sk, ct, applies, out>>

hierVars == <<cent, asm, FF, ap, cancel, hout, file, FF2>>

vars == <<shapeVars, solveVars, hierVars>>

-----------------------------------------------------------------------------
(* Bounds of the model *)

NumFaces == 2

Faces == 0..(NumFaces - 1)

Points == {<<0, 0, 0>>, <<0, 0, 1>>}

Normals == {<<0, 0, 1>>, <<0, 0, -1>>}

Dirs == {<<0, 0, 1>>, <<0, 0, -1>>}

Impls == {"cgal", "embree"}

-----------------------------------------------------------------------------
(* Arrays and vectors *)

ALen(a) == Cardinality(DOMAIN a)

Arrays(S, maxlen) == UNION {[0..(k - 1) -> S] : k \in 1..maxlen}

\* the index arrays I, J of a query: every ordered selection of faces
IndexArrays == {a \in Arrays(Faces, NumFaces) : \A p, q \in DOMAIN a : a[p] = a[q] => p = q}

Arange(n) == [k \in 0..(n - 1) |-> k]

Dot(u, v) == u[1] * v[1] + u[2] * v[2] + u[3] * v[3]

VSub(u, v) == <<u[1] - v[1], u[2] - v[2], u[3] - v[3]>>

NormSq(u) == Dot(u, u)

Max(a, b) == IF a >= b THEN a ELSE b

Ok(v) == [kind |-> "ok", exc |-> "", val |-> v]

Raise(e) == [kind |-> "raise", exc |-> e, val |-> <<>>]

-----------------------------------------------------------------------------
(* The geometry of a mesh and the constructor.  A float array is held with  *)
(* its dtype; a normal is held with the flag numpy's 0/0 sets, nan.         *)

\* the vertex array of the model's meshes: one triangle around the z axis
\* at height 0 and one at height 1; the coordinates make every mean and
\* every area an integer
Vertices ==
    [k \in 0..5 |->
        <<IF k % 3 = 0 THEN 6 ELSE IF k % 3 = 1 THEN -6 ELSE 0,
          IF k % 3 = 0 THEN 0 ELSE IF k % 3 = 1 THEN 6 ELSE -6,
          k \div 3>>]

\* the faces with three distinct vertices at one height, in both windings
SoundFaces == {<<0, 1, 2>>, <<0, 2, 1>>, <<3, 4, 5>>, <<3, 5, 4>>}

\* faces with a repeated vertex: the cross product of their edges is zero
DegenerateFaces == {<<0, 0, 1>>, <<2, 2, 2>>, <<3, 4, 3>>}

Dtypes == {"float32", "float64"}

None == [given |-> FALSE, dtype |-> "", rows |-> <<>>]

Array(dt, r) == [given |-> TRUE, dtype |-> dt, rows |-> r]

Cross(u, v) ==
    <<u[2] * v[3] - u[3] * v[2], u[3] * v[1] - u[1] * v[3], u[1] * v[2] - u[2] * v[1]>>

\* np.sqrt on the squares the meshes of the model produce
Sqrt(n) == CHOOSE r \in 0..n : r * r = n

\* V[F].mean(axis=1)
get_centroids(Vr, Fa) ==
    [i \in DOMAIN Fa |->
        <<(Vr[Fa[i][1]][1] + Vr[Fa[i][2]][1] + Vr[Fa[i][3]][1]) \div 3,
          (Vr[Fa[i][1]][2] + Vr[Fa[i][2]][2] + Vr[Fa[i][3]][2]) \div 3,
          (Vr[Fa[i][1]][3] + Vr[Fa[i][2]][3] + Vr[Fa[i][3]][3]) \div 3>>]

get_cross_products(Vr, Fa) ==
    [i \in DOMAIN Fa |->
        LET V0 == Vr[Fa[i][1]]
        IN  Cross(VSub(Vr[Fa[i][2]], V0), VSub(Vr[Fa[i][3]], V0))]

\* C/C_norms, row i: numpy divides 0 by 0 to nan and goes on
UnitNormal(c) ==
    LET C_norm == Sqrt(NormSq(c))
    IN  IF C_norm = 0
        THEN [nan |-> TRUE, v |-> <<0, 0, 0>>]
        ELSE [nan |-> FALSE, v |-> <<c[1] \div C_norm, c[2] \div C_norm, c[3] \div C_norm>>]

get_face_areas(Vr, Fa) ==
    LET C == get_cross_products(Vr, Fa)
    IN  [i \in DOMAIN Fa |-> Sqrt(NormSq(C[i])) \div 2]

get_surface_normals(Vr, Fa) ==
    LET C == get_cross_products(Vr, Fa)
    IN  [i \in DOMAIN Fa |-> UnitNormal(C[i])]

get_surface_normals_and_face_areas(Vr, Fa) ==
    LET C == get_cross_products(Vr, Fa)
    IN  [N |-> [i \in DOMAIN Fa |-> UnitNormal(C[i])],
         A |-> [i \in DOMAIN Fa |-> Sqrt(NormSq(C[i])) \div 2]]

\* lines 103-110: the fields are set, the dtypes asserted, the scene made
SetFields(c, Vd, Fa, Nd, Ad) ==
    IF Nd.dtype /= Vd.dtype \/ Ad.dtype /= Vd.dtype
    THEN Raise("AssertionError")
    ELSE Ok([cls |-> c, dtype |-> Vd.dtype, V |-> Vd.rows, F |-> Fa,
             N |-> Nd.rows, P |-> get_centroids(Vd.rows, Fa), A |-> Ad.rows])

\* variant: the class of self is not tested, the base class is constructed
\* like its subclasses
TrimeshShapeModelInitAnyClass(c, Vd, Fa, Narg, Parg, Aarg) ==
    IF ~Narg.given /\ ~Aarg.given
    THEN LET NA == get_surface_normals_and_face_areas(Vd.rows, Fa)
         IN  SetFields(c, Vd, Fa, Array(Vd.dtype, NA.N), Array(Vd.dtype, NA.A))
    ELSE IF ~Aarg.given
    THEN IF ALen(Narg.rows) /= ALen(Fa)
         THEN Raise("Exception")
         ELSE SetFields(c, Vd, Fa, Narg, Array(Vd.dtype, get_face_areas(Vd.rows, Fa)))
    ELSE IF ~Narg.given
    THEN SetFields(c, Vd, Fa, Array(Vd.dtype, get_surface_normals(Vd.rows, Fa)), Aarg)
    ELSE SetFields(c, Vd, Fa, Narg, Aarg)

\* variant: centroids that are passed are stored, "to avoid recomputing"
TrimeshShapeModelInitKeepsP(c, Vd, Fa, Narg, Parg, Aarg) ==
    LET r == IF c = "TrimeshShapeModel" THEN Raise("RuntimeError")
             ELSE TrimeshShapeModelInitAnyClass(c, Vd, Fa, Narg, Parg, Aarg)
    IN  IF r.kind = "ok" /\ Parg.given
        THEN Ok([r.val EXCEPT !.P = Parg.rows])
        ELSE r

\* TrimeshShapeModel.__init__(self, V, F, N, P, A) with type(self) = c
TrimeshShapeModelInit(c, Vd, Fa, Narg, Parg, Aarg) ==
    IF c = "TrimeshShapeModel" THEN Raise("RuntimeError")
    ELSE IF ~Narg.given /\ ~Aarg.given
    THEN LET NA == get_surface_normals_and_face_areas(Vd.rows, Fa)
         IN  SetFields(c, Vd, Fa, Array(Vd.dtype, NA.N), Array(Vd.dtype, NA.A))
    ELSE IF ~Aarg.given
    THEN IF ALen(Narg.rows) /= ALen(Fa)
         THEN Raise("Exception")
         ELSE SetFields(c, Vd, Fa, Narg, Array(Vd.dtype, get_face_areas(Vd.rows, Fa)))
    ELSE IF ~Narg.given
    THEN SetFields(c, Vd, Fa, Array(Vd.dtype, get_surface_normals(Vd.rows, Fa)), Aarg)
    ELSE SetFields(c, Vd, Fa, Narg, Aarg)

-----------------------------------------------------------------------------
(* The ray tracers.  Embree and the AABB tree of flux.cgal.aabb answer from *)
(* the same scene.                                                          *)

\* embree.INVALID_GEOMETRY_ID, the unsigned 32-bit -1
NoHit == -1

EpsInv == 1000

Rays == {r \in Points \X Points : r[1] /= r[2]}

\* scene.intersect1M on one ray of _get_visibility: origin P[i] + eps*D,
\* direction D toward P[j]
RayHit(i, j) ==
    LET h == firstHit[<<P[i], P[j]>>]
    IN  [geom_id |-> IF h = NoHit THEN NoHit ELSE 0, prim_id |-> h]

\* AABB.test_face_to_face_vis(i, j): the segment between the two centroids
\* strikes no triangle other than i or j
test_face_to_face_vis(i, j) ==
    IF P[i] = P[j] THEN aabbNear ELSE firstHit[<<P[i], P[j]>>] = j

\* AABB.ray_from_centroid_is_occluded(i, d)
ray_from_centroid_is_occluded(i, d) == occ[<<i, d>>]

-----------------------------------------------------------------------------
(* _get_visibility, both classes: the m*n visibility mask before the caller's *)
(* corrections, raveled row by row.                                           *)

CgalGetVisibility(I, J) ==
    LET m == ALen(I)
        n == ALen(J)
    IN  [k \in 0..(m * n - 1) |->
            LET i == I[k \div n]
                j == J[k % n]
            IN  IF i = j THEN FALSE ELSE test_face_to_face_vis(i, j)]

EmbreeGetVisibility(I, J) ==
    LET m == ALen(I)
        n == ALen(J)
        D == [k \in 0..(m * n - 1) |-> VSub(P[J[k % n]], P[I[k \div n]])]
        \* D_norm_sq > eps, with eps = 1/EpsInv
        mask == [k \in 0..(m * n - 1) |-> NormSq(D[k]) * EpsInv * EpsInv > 1]
        J_extended == [k \in 0..(m * n - 1) |-> J[k % n]]
    IN  [k \in 0..(m * n - 1) |->
            IF mask[k]
            THEN LET rayhit == RayHit(I[k \div n], J[k % n])
                 IN  rayhit.geom_id /= NoHit /\ rayhit.prim_id = J_extended[k]
            ELSE TRUE]

_get_visibility(impl, I, J) ==
    IF impl = "cgal" THEN CgalGetVisibility(I, J) ELSE EmbreeGetVisibility(I, J)

\* the "oriented" pass of get_visibility over row q of the raveled mask
OrientedPass(vis, I, J) ==
    LET n == ALen(J)
    IN  [k \in DOMAIN vis |->
            vis[k] /\ Dot(VSub(P[J[k % n]], P[I[k \div n]]), N[I[k \div n]]) > 0]

\* variant: the diagonal is left as the tracer reported it
SelfPassSkipped(vis, I, J) == vis

\* "faces can't see themselves"
SelfPass(vis, I, J) ==
    LET n == ALen(J)
    IN  [k \in DOMAIN vis |-> IF J[k % n] = I[k \div n] THEN FALSE ELSE vis[k]]

Reshape(vis, m, n) == [p \in 0..(m - 1) |-> [q \in 0..(n - 1) |-> vis[p * n + q]]]

get_visibility(impl, I, J, oriented) ==
    LET vis0 == _get_visibility(impl, I, J)
        vis1 == IF oriented THEN OrientedPass(vis0, I, J) ELSE vis0
        vis2 == SelfPass(vis1, I, J)
    IN  Ok(Reshape(vis2, ALen(I), ALen(J)))

get_visibility_1_to_N(impl, i, J, oriented) ==
    LET r == get_visibility(impl, [k \in {0} |-> i], J, oriented)
    IN  Ok(r.val[0])

get_visibility_matrix(impl, oriented) ==
    get_visibility(impl, Arange(NumFaces), Arange(NumFaces), oriented)

-----------------------------------------------------------------------------
(* is_occluded.  D is [ndim, rows]: one row when D is a single vector      *)
(* (ndim = 1), one row per direction when D is a k x 3 array (ndim = 2).    *)

SingleDir(d) == [ndim |-> 1, rows |-> [k \in {0} |-> d]]

DirArgs == {SingleDir(d) : d \in Dirs} \cup {[ndim |-> 2, rows |-> r] : r \in Arrays(Dirs, NumFaces)}

CgalIsOccluded(I, D) ==
    LET m == ALen(I)
    IN  IF D.ndim = 1
        THEN Ok([p \in 0..(m - 1) |-> ray_from_centroid_is_occluded(I[p], D.rows[0])])
        ELSE \* D[i], the row of D at the face's index
             IF \E p \in 0..(m - 1) : I[p] \notin DOMAIN D.rows
             THEN Raise("IndexError")
             ELSE Ok([p \in 0..(m - 1) |-> ray_from_centroid_is_occluded(I[p], D.rows[I[p]])])

\* the attributes an instance has: those __init__ and _make_scene set, and the methods
Attributes(impl) ==
    {"dtype", "V", "F", "P", "N", "A", "num_faces", "num_verts",
     "get_visibility", "get_visibility_1_to_N", "get_visibility_matrix",
     "is_occluded", "get_direct_irradiance", "get_pyvista_unstructured_grid",
     "_make_scene", "_get_visibility", "_is_occluded"}
    \cup (IF impl = "cgal" THEN {"aabb"} ELSE {"scene"})

EmbreeIsOccluded(I, D) ==
    LET m == ALen(I)
        k == ALen(D.rows)
    IN  IF D.ndim /= 1 /\ D.ndim /= 2
        THEN Raise("ValueError")
        ELSE \* ray.dir[:] = D broadcasts D over the m rays
             IF D.ndim = 2 /\ k /= m /\ k /= 1
             THEN Raise("ValueError")
             ELSE \* self.occluded1M(context, ray)
                  IF "occluded1M" \notin Attributes("embree")
                  THEN Raise("AttributeError")
                  ELSE Ok([p \in 0..(m - 1) |->
                              occ[<<I[p], D.rows[IF k = 1 THEN 0 ELSE p]>>]])

_is_occluded(impl, I, D) ==
    IF impl = "cgal" THEN CgalIsOccluded(I, D) ELSE EmbreeIsOccluded(I, D)

is_occluded(impl, I, D) == _is_occluded(impl, I, D)

-----------------------------------------------------------------------------
(* get_direct_irradiance.  A name of the body is bound when it is a        *)
(* parameter, a global of the module, or was assigned earlier in the body. *)

GdiParams == {"self", "F0", "Dsun", "unit_Svec", "basemesh", "eps"}

GdiLocals == GdiParams \cup {"base_mesh", "I", "AU_km", "E", "i", "d"}

ModuleGlobals ==
    {"embree", "it", "np", "ABC", "AABB", "use1M", "get_centroids",
     "get_cross_products", "get_face_areas", "get_surface_normals",
     "get_surface_normals_and_face_areas", "ShapeModel", "TrimeshShapeModel",
     "CgalTrimeshShapeModel", "EmbreeTrimeshShapeModel", "trimesh_shape_models"}

\* reading name x when the names of `bound` have been assigned
ReadName(x, bound) ==
    IF x \in bound THEN "ok"
    ELSE IF x \in GdiLocals THEN "UnboundLocalError"
    ELSE IF x \in ModuleGlobals THEN "ok"
    ELSE "NameError"

\* basemesh=None
NoMesh == [given |-> FALSE, num_faces |-> 0, P |-> <<>>, shadows |-> <<>>]

\* the centroids a base mesh may have
BaseOrigins == {<<0, 0, z>> : z \in 0..NumFaces}

\* a shape model passed as basemesh: it has one face more than self, its
\* centroids are stacked bottom-up or top-down, and `shadows` is its scene:
\* whether its geometry blocks the ray leaving origin o along d
BaseMeshes ==
    {[given |-> TRUE,
      num_faces |-> NumFaces + 1,
      P |-> [k \in 0..NumFaces |-> IF up THEN <<0, 0, k>> ELSE <<0, 0, NumFaces - k>>],
      shadows |-> [r \in BaseOrigins \X Dirs |-> r[1][3] >= 1 /\ r[2] = <<0, 0, 1>>]] :
     up \in BOOLEAN}

\* basemesh.is_occluded(I, D), basemesh an instance of the class of self: the
\* rays leave the centroids of basemesh
BaseIsOccluded(impl, base, I, D) ==
    LET own == is_occluded(impl, I, D)
        k == ALen(D.rows)
        row(p) == IF impl = "cgal" THEN (IF D.ndim = 1 THEN 0 ELSE I[p])
                  ELSE (IF k = 1 THEN 0 ELSE p)
    IN  IF own.kind = "raise" THEN own
        ELSE IF \E p \in DOMAIN I : I[p] \notin DOMAIN base.P
        THEN Raise("IndexError")
        ELSE Ok([p \in DOMAIN I |-> base.shadows[<<base.P[I[p]], D.rows[row(p)]>>]])

get_direct_irradiance(impl, F0, Dsun, unit_Svec, basemesh) ==
    \* if base_mesh == None:
    IF ReadName("base_mesh", GdiParams) /= "ok"
    THEN Raise(ReadName("base_mesh", GdiParams))
    ELSE LET I == IF ~basemesh.given
                  THEN is_occluded(impl, Arange(NumFaces), Dsun)
                  ELSE BaseIsOccluded(impl, basemesh, Arange(NumFaces), Dsun)
             bound == GdiParams \cup {"base_mesh", "I"}
         IN  IF I.kind = "raise" THEN I
             \* F0 *= (AU_km / distSunkm) ** 2
             ELSE IF ~unit_Svec /\ ReadName("distSunkm", bound \cup {"AU_km"}) /= "ok"
             THEN Raise(ReadName("distSunkm", bound \cup {"AU_km"}))
             \* E = np.zeros(n, dtype=self.dtype)
             ELSE IF ReadName("n", bound \cup {"AU_km"}) /= "ok"
             THEN Raise(ReadName("n", bound \cup {"AU_km"}))
             \* E[I] = F0*np.maximum(0, self.N[I]@Dsun)
             ELSE Ok([i \in Faces |->
                         IF I.val[i] THEN F0 * Max(0, Dot(N[i], Dsun.rows[0])) ELSE 0])

\* the array the caller passed as Dsun, as it is after the call: lines
\* 211-238 read it (is_occluded(.., Dsun), Dsun.ndim, self.N[I]@Dsun,
\* enumerate(Dsun)) and hold no assignment to it or to an element of it, and
\* _is_occluded of either class reads D the same way
DsunAfter(impl, F0, Dsun, unit_Svec, basemesh) == Dsun

-----------------------------------------------------------------------------
(* Exact arithmetic for the solver: a rational is <<n, d>> in lowest terms, *)
(* d > 0.                                                                   *)

Abs(a) == IF a < 0 THEN -a ELSE a

RECURSIVE GCD(_, _)
GCD(a, b) == IF b = 0 THEN a ELSE GCD(b, a % b)

Rat(n, d) ==
    LET s == IF d < 0 THEN -1 ELSE 1
        g == GCD(Abs(n), Abs(d))
    IN  <<(s * n) \div g, (s * d) \div g>>

Zero == <<0, 1>>

One == <<1, 1>>

RAdd(a, b) == Rat(a[1] * b[2] + b[1] * a[2], a[2] * b[2])

RSub(a, b) == Rat(a[1] * b[2] - b[1] * a[2], a[2] * b[2])

RMul(a, b) == Rat(a[1] * b[1], a[2] * b[2])

RDiv(a, b) == Rat(a[1] * b[2], a[2] * b[1])

RLt(a, b) == a[1] * b[2] < b[1] * a[2]

Dim == 3

MaxIter == 4

Idx == 0..(Dim - 1)

RECURSIVE RSum(_, _)
RSum(f, S) ==
    IF S = {} THEN Zero
    ELSE LET k == CHOOSE k \in S : TRUE IN RAdd(f[k], RSum(f, S \ {k}))

VecAdd(u, v) == [k \in Idx |-> RAdd(u[k], v[k])]

VecSub(u, v) == [k \in Idx |-> RSub(u[k], v[k])]

Scale(c, v) == [k \in Idx |-> RMul(c, v[k])]

\* L@v
MatVec(Lm, v) == [r \in Idx |-> RSum([k \in Idx |-> RMul(Lm[r][k], v[k])], Idx)]

\* np.linalg.norm(v), held as its square
NormSq2(v) == RSum([k \in Idx |-> RMul(v[k], v[k])], Idx)

\* sqrt(a) > t, for t > 0
NormGt(a, t) == RLt(RMul(t, t), a)

\* abs(sqrt(a) - sqrt(c)) < t, for t > 0
AbsDiffLt(a, c, t) ==
    LET hi == IF RLt(a, c) THEN c ELSE a
        lo == IF RLt(a, c) THEN a ELSE c
        g == RSub(RSub(hi, lo), RMul(t, t))
    IN  RLt(g, Zero) \/ RLt(RMul(g, g), RMul(<<4, 1>>, RMul(RMul(t, t), lo)))

-----------------------------------------------------------------------------
(* solve_kernel_system(L, b, rho, tol).  The frame holds the locals; x and  *)
(* b hold object ids of the heap, so that "x = b" shares one array.         *)

ZeroVec == [k \in Idx |-> Zero]

ZeroMat == [r \in Idx |-> ZeroVec]

IdleSk ==
    [pc |-> "idle", L |-> ZeroMat, b |-> 0, rho |-> Zero, tol |-> One, x |-> 0,
     dx |-> ZeroVec, nmul |-> 0, err |-> Zero, prev_err |-> Zero, first |-> 0]

\* lines 48-51: the statements before the loop; `first` is the number of
\* products executed before this call
SolveEnter(Lm, b, rho, tol, h, n0) ==
    LET dx == MatVec(Lm, Scale(rho, h[b]))
    IN  [pc |-> "while", L |-> Lm, b |-> b, rho |-> rho, tol |-> tol,
         x |-> b, dx |-> dx, nmul |-> 1,
         err |-> NormSq2(VecAdd(VecSub(h[b], h[b]), dx)),
         prev_err |-> Zero, first |-> n0]

\* line 52: while np.linalg.norm(err) > tol
WhileCond(f) == NormGt(f.err, f.tol)

\* variant: the product is taken of the current iterate, dx = L@(rho*x)
LoopBodyOnIterate(f, h) ==
    LET xnew == VecAdd(h[f.b], f.dx)
        h1 == Append(h, xnew)
        dx == MatVec(f.L, Scale(f.rho, xnew))
        err == NormSq2(VecAdd(VecSub(h1[f.b], xnew), dx))
        brk == AbsDiffLt(err, f.err, f.tol)
    IN  [heap |-> h1,
         sk |-> [f EXCEPT !.x = Len(h1), !.dx = dx, !.nmul = f.nmul + 1,
                          !.prev_err = f.err, !.err = err,
                          !.pc = IF brk THEN "return" ELSE "while"]]

\* variant: the pass does not count its product
LoopBodyUncounted(f, h) ==
    LET xnew == VecAdd(h[f.b], f.dx)
        h1 == Append(h, xnew)
        dx == MatVec(f.L, Scale(f.rho, h1[f.b]))
        err == NormSq2(VecAdd(VecSub(h1[f.b], xnew), dx))
        brk == AbsDiffLt(err, f.err, f.tol)
    IN  [heap |-> h1,
         sk |-> [f EXCEPT !.x = Len(h1), !.dx = dx,
                          !.prev_err = f.err, !.err = err,
                          !.pc = IF brk THEN "return" ELSE "while"]]

\* lines 53-59: one pass of the loop body; x = b + dx makes a new array
LoopBody(f, h) ==
    LET xnew == VecAdd(h[f.b], f.dx)
        h1 == Append(h, xnew)
        dx == MatVec(f.L, Scale(f.rho, h1[f.b]))
        err == NormSq2(VecAdd(VecSub(h1[f.b], xnew), dx))
        brk == AbsDiffLt(err, f.err, f.tol)
    IN  [heap |-> h1,
         sk |-> [f EXCEPT !.x = Len(h1), !.dx = dx, !.nmul = f.nmul + 1,
                          !.prev_err = f.err, !.err = err,
                          !.pc = IF brk THEN "return" ELSE "while"]]

-----------------------------------------------------------------------------
(* compute_T(L, Q, rho, emiss, tol) *)

IdleCt ==
    [pc |-> "idle", E |-> 0, E0 |-> ZeroVec, Q |-> 0, rho |-> Zero, emiss |-> One,
     tol |-> One, nmul1 |-> 0, nmul2 |-> 0]

\* a value divided by sigma, the Stefan-Boltzmann constant: coef * sigma^-1
DivSigma(q) == [coef |-> q, sigma |-> -1]

\* q**(1/4), held by its radicand; numpy gives nan for a negative one
Root4(q) == [radicand |-> q, nan |-> RLt(q.coef, Zero)]

NoOut == [kind |-> "none", x |-> <<>>, ref |-> 0, nmul |-> 0, flux |-> <<>>]

\* variant: the absorbed fraction is not taken, Q is passed on unscaled
AfterSolve1Unscaled(c, f, h, n) ==
    [heap |-> h,
     ct |-> [c EXCEPT !.pc = "solve2", !.Q = f.x, !.nmul1 = f.nmul],
     sk |-> SolveEnter(f.L, f.x, One, c.tol, h, n)]

\* lines 64-65, after the first solve returned (x, nmul): Q *= 1 - rho in
\* place, then the second solve is entered
AfterSolve1(c, f, h, n) ==
    LET Q == f.x
        h1 == [h EXCEPT ![Q] = Scale(RSub(One, c.rho), h[Q])]
    IN  [heap |-> h1,
         ct |-> [c EXCEPT !.pc = "solve2", !.Q = Q, !.nmul1 = f.nmul],
         sk |-> SolveEnter(f.L, Q, One, c.tol, h1, n)]

\* variant: Q = (1 - emiss) + emiss*tmp, the factor Q dropped
AfterSolve2Offset(c, f, h) ==
    LET tmp == f.x
        mixed == [k \in Idx |-> RAdd(RSub(One, c.emiss), RMul(c.emiss, h[tmp][k]))]
        flux == [k \in Idx |-> DivSigma(RDiv(mixed[k], c.emiss))]
        T == [k \in Idx |-> Root4(flux[k])]
    IN  [ct |-> [c EXCEPT !.pc = "done", !.nmul2 = f.nmul],
         out |-> [kind |-> "compute_T", x |-> T, ref |-> Len(h) + 1,
                  nmul |-> c.nmul1 + f.nmul, flux |-> flux]]

\* lines 66-69, after the second solve returned (tmp, nmul2)
AfterSolve2(c, f, h) ==
    LET tmp == f.x
        mixed == VecAdd(Scale(RSub(One, c.emiss), h[c.Q]), Scale(c.emiss, h[tmp]))
        flux == [k \in Idx |-> DivSigma(RDiv(mixed[k], c.emiss))]
        T == [k \in Idx |-> Root4(flux[k])]
    IN  [ct |-> [c EXCEPT !.pc = "done", !.nmul2 = f.nmul],
         out |-> [kind |-> "compute_T", x |-> T, ref |-> Len(h) + 1,
                  nmul |-> c.nmul1 + f.nmul, flux |-> flux]]

-----------------------------------------------------------------------------
(* The inputs of the solver *)

\* operators with a zero diagonal and at most one entry, weight 1, in every row
Operators ==
    {[r \in Idx |-> [k \in Idx |-> IF pick[r] = k /\ k /= r THEN One ELSE Zero]] :
        pick \in [Idx -> Idx]}

RightHandSides == [Idx -> {Zero, One}]

Albedos == {Zero, <<1, 2>>, One}

Emissivities == {<<1, 2>>, One}

Tolerances == {<<1, 4>>, <<2, 1>>}

-----------------------------------------------------------------------------
(* The hierarchical form factor operator behind                            *)
(* FormFactorMatrix.assemble_using_quadtree (src/tutorial.py:200), FF.save *)
(* (src/tutorial.py:207) and CompressedFormFactorMatrix.from_file          *)
(* (src/examples/lsp_spice.py:70).  The module that defines it is not      *)
(* among the sources; its quadtree, its block tree, its product with a     *)
(* vector and its file format are taken from sections 4.C, 4.E, 4.F, 5 and *)
(* 6 of the specification.                                                 *)
(*                                                                         *)
(* An index set is the ascending sequence of its face indices.  A block is *)
(* known by its path from the root: child k of the block at path p is at   *)
(* p \o <<k>>.  With leaves of at most MinSize <= 2 faces no block is      *)
(* large enough for a low-rank or a sparse leaf to pay (4.E), so the       *)
(* leaves of the model are dense or zero.                                  *)

\* the number of faces of the mesh the operator is assembled for
HierFaces == 3

\* m_min: a quadtree node with at most this many faces is not split
MinSize == 1

\* the workers that apply sibling blocks at the same time
Workers == 2

HFaces == 0 .. (HierFaces - 1)

\* projected centroids (x, y) a face of the mesh may have
Sites == {<<0, 0>>, <<1, 0>>, <<2, 0>>, <<3, 3>>}

\* meshes: every face has a centroid of its own
Centroids == {c \in [HFaces -> Sites] : \A i, j \in HFaces : c[i] = c[j] => i = j}

SeqRange(s) == {s[k] : k \in 1 .. Len(s)}

RECURSIVE Concat(_)
\* the concatenation of a sequence of sequences
Concat(ss) == IF ss = <<>> THEN <<>> ELSE Head(ss) \o Concat(Tail(ss))

\* the root index set 0 .. n-1
AllFaces(n) == [k \in 1 .. n |-> k - 1]

\* bounding box of the centroids of I along axis ax
Lo(I, c, ax) == CHOOSE v \in {c[i][ax] : i \in SeqRange(I)} :
                    \A i \in SeqRange(I) : v <= c[i][ax]

Hi(I, c, ax) == CHOOSE v \in {c[i][ax] : i \in SeqRange(I)} :
                    \A i \in SeqRange(I) : v >= c[i][ax]

\* 4.C: split at the midpoint of the bounding box, intervals [lo, mid) and
\* [mid, hi]
Side(I, c, i, ax) == IF 2 * c[i][ax] < Lo(I, c, ax) + Hi(I, c, ax) THEN 0 ELSE 1

Quadrant(I, c, i) == Side(I, c, i, 1) + 2 * Side(I, c, i, 2)

\* variant: a centroid on a split plane is given to the children on both
\* sides of it
PartOnBothSides(I, c, q) ==
    SelectSeq(I, LAMBDA i :
        \E sx, sy \in {0, 1} :
            /\ q = sx + 2 * sy
            /\ sx = Side(I, c, i, 1) \/ 2 * c[i][1] = Lo(I, c, 1) + Hi(I, c, 1)
            /\ sy = Side(I, c, i, 2) \/ 2 * c[i][2] = Lo(I, c, 2) + Hi(I, c, 2))

\* the faces of I that fall in quadrant q
Part(I, c, q) == SelectSeq(I, LAMBDA i : Quadrant(I, c, i) = q)

\* 4.C: a node is not split when it holds at most m_min faces or when the
\* split would leave all its faces in one child
IsLeafNode(I, c) ==
    \/ Len(I) <= MinSize
    \/ \E q \in 0 .. 3 : Part(I, c, q) = I

\* 4.C: the children of a node, empty children omitted; a node that is not
\* split stands for itself when only the other side of a block descends
Children(I, c) ==
    IF IsLeafNode(I, c) THEN <<I>>
    ELSE SelectSeq([q \in 1 .. 4 |-> Part(I, c, q - 1)], LAMBDA s : s /= <<>>)

\* 4.D: the form factor of faces i and j in float32 units, zero on the
\* diagonal and where it falls below the tolerance
Kernel(c, i, j) ==
    LET d2 == (c[i][1] - c[j][1]) * (c[i][1] - c[j][1])
              + (c[i][2] - c[j][2]) * (c[i][2] - c[j][2])
    IN  IF i = j THEN 0 ELSE IF d2 <= 2 THEN 2 ELSE IF d2 <= 5 THEN 1 ELSE 0

\* the entries of block (I, J), row-major
Entries(c, I, J) ==
    [k \in 1 .. Len(I) * Len(J) |->
        Kernel(c, I[((k - 1) \div Len(J)) + 1], J[((k - 1) % Len(J)) + 1])]

\* a block still to be assembled
Block(path, I, J) == [path |-> path, rows |-> I, cols |-> J]

\* 4.F: the child blocks of an internal block, the Cartesian product of the
\* row children and the column children, row-major
ProductOf(rs, cs) ==
    [k \in 1 .. Len(rs) * Len(cs) |->
        [rows |-> rs[((k - 1) \div Len(cs)) + 1], cols |-> cs[((k - 1) % Len(cs)) + 1]]]

\* 4.F, 4.E: the node assembled for block b: a leaf when both sides are
\* leaves of the quadtree, zero when the block is identically zero and dense
\* otherwise; an internal node with its child blocks when a side is split
VisitBlock(c, b) ==
    IF IsLeafNode(b.rows, c) /\ IsLeafNode(b.cols, c)
    THEN LET e == Entries(c, b.rows, b.cols)
         IN  IF \A k \in DOMAIN e : e[k] = 0
             THEN [path |-> b.path, rows |-> b.rows, cols |-> b.cols, tag |-> "zero",
                   children |-> <<>>, entries |-> <<>>]
             ELSE [path |-> b.path, rows |-> b.rows, cols |-> b.cols, tag |-> "dense",
                   children |-> <<>>, entries |-> e]
    ELSE [path |-> b.path, rows |-> b.rows, cols |-> b.cols, tag |-> "internal",
          children |-> ProductOf(Children(b.rows, c), Children(b.cols, c)),
          entries |-> <<>>]

\* the blocks an internal node hands on
ChildBlocks(n) ==
    [k \in 1 .. Len(n.children) |->
        Block(n.path \o <<k>>, n.children[k].rows, n.children[k].cols)]

NodeAt(nodes, path) == CHOOSE n \in nodes : n.path = path

\* no operator: nothing assembled, nothing loaded
NoOperator == [N |-> 0, tol |-> <<>>, min_size |-> 0, arity |-> 0, nodes |-> {}]

\* tol = 5e-4 as the eight bytes of a little-endian float64
Tol == <<252, 169, 241, 210, 77, 98, 64, 63>>

\* a quadtree has four children per node
Arity == 4

\* the operator assembled from the nodes
Operator(n, nodes) ==
    [N |-> n, tol |-> Tol, min_size |-> MinSize, arity |-> Arity, nodes |-> nodes]

\* 4.F: the product of leaf n with x, accumulated into the rows of y
LeafApply(n, x, y) ==
    LET nc == Len(n.cols)
        dot(p) == LET RECURSIVE S(_)
                      S(q) == IF q = 0 THEN 0
                              ELSE S(q - 1) + n.entries[(p - 1) * nc + q] * x[n.cols[q]]
                  IN  S(nc)
    IN  IF n.tag = "zero" THEN y
        ELSE [i \in DOMAIN y |->
                IF \E p \in 1 .. Len(n.rows) : n.rows[p] = i
                THEN y[i] + dot(CHOOSE p \in 1 .. Len(n.rows) : n.rows[p] = i)
                ELSE y[i]]

\* the entries of y a block accumulates into
WriteSet(n) == SeqRange(n.rows)

-----------------------------------------------------------------------------
(* The operator file (section 6): little-endian, magic FFM1, the header,   *)
(* then the tree in pre-order.                                             *)

RECURSIVE LE(_, _)
\* the k bytes of the unsigned integer n, least significant first
LE(n, k) == IF k = 0 THEN <<>> ELSE <<n % 256>> \o LE(n \div 256, k - 1)

RECURSIVE Rd(_, _, _)
\* the unsigned integer held in the k bytes of bytes from position pos
Rd(bytes, pos, k) == IF k = 0 THEN 0 ELSE bytes[pos] + 256 * Rd(bytes, pos + 1, k - 1)

\* "FFM1"
Magic == <<70, 70, 77, 49>>

Version == 1

\* the tag bytes of the node records
TagInternal == 0

TagDense == 1

TagZero == 4

\* the header: version (u32), N (u64), tol (f64), m_min (u32), arity (u8)
Header(ff) == LE(Version, 4) \o LE(ff.N, 8) \o ff.tol \o LE(ff.min_size, 4) \o LE(ff.arity, 1)

\* the first byte after the magic and the header
TreeStart == Len(Magic) + 4 + 8 + 8 + 4 + 1 + 1

\* an index set: u32 count, then the indices as u32
Descriptor(I) == LE(Len(I), 4) \o Concat([k \in 1 .. Len(I) |-> LE(I[k], 4)])

Shape(n) == LE(Len(n.rows), 4) \o LE(Len(n.cols), 4)

RECURSIVE Emit(_, _)
\* the record of the node at path and, for an internal node, of every child
\* after the child's two descriptors
Emit(nodes, path) ==
    LET n == NodeAt(nodes, path)
    IN  IF n.tag = "internal"
        THEN <<TagInternal>> \o LE(Len(n.children), 1)
             \o Concat([k \in 1 .. Len(n.children) |->
                    Descriptor(n.children[k].rows) \o Descriptor(n.children[k].cols)
                    \o Emit(nodes, path \o <<k>>)])
        ELSE IF n.tag = "dense"
        THEN <<TagDense>> \o Shape(n)
             \o Concat([k \in 1 .. Len(n.entries) |-> LE(n.entries[k], 4)])
        ELSE <<TagZero>> \o Shape(n)

\* FF.save: the bytes of the operator
Save(ff) == Magic \o Header(ff) \o Emit(ff.nodes, <<>>)

\* variant: the descriptor is read as a range, its count and first index
ReadDescriptorAsRange(bytes, pos) ==
    LET cnt == Rd(bytes, pos, 4)
    IN  [set |-> [k \in 1 .. cnt |-> Rd(bytes, pos + 4, 4) + k - 1],
         next |-> pos + 4 + 4 * cnt]

\* an index set read at pos: the set and the position after it
ReadDescriptor(bytes, pos) ==
    LET cnt == Rd(bytes, pos, 4)
    IN  [set |-> [k \in 1 .. cnt |-> Rd(bytes, pos + 4 * k, 4)], next |-> pos + 4 + 4 * cnt]

RECURSIVE Parse(_, _, _, _, _)
RECURSIVE ParseChildren(_, _, _, _, _, _)
\* the node record at pos, for the block (I, J) at path: the nodes read and
\* the position after them
Parse(bytes, pos, path, I, J) ==
    LET tag == bytes[pos]
    IN  IF tag = TagInternal
        THEN LET r == ParseChildren(bytes, pos + 2, path, 1, bytes[pos + 1], <<>>)
             IN  [nodes |-> r.nodes \cup
                        {[path |-> path, rows |-> I, cols |-> J, tag |-> "internal",
                          children |-> r.children, entries |-> <<>>]},
                  next |-> r.next]
        ELSE LET nr == Rd(bytes, pos + 1, 4)
                 nc == Rd(bytes, pos + 5, 4)
             IN  IF tag = TagDense
                 THEN [nodes |-> {[path |-> path, rows |-> I, cols |-> J, tag |-> "dense",
                                   children |-> <<>>,
                                   entries |-> [k \in 1 .. nr * nc |->
                                                   Rd(bytes, pos + 5 + 4 * k, 4)]]},
                       next |-> pos + 9 + 4 * nr * nc]
                 ELSE [nodes |-> {[path |-> path, rows |-> I, cols |-> J, tag |-> "zero",
                                   children |-> <<>>, entries |-> <<>>]},
                       next |-> pos + 9]

\* children k .. cnt of the internal node at path, read from pos; done holds
\* the index sets of the children already read
ParseChildren(bytes, pos, path, k, cnt, done) ==
    IF k > cnt THEN [nodes |-> {}, children |-> done, next |-> pos]
    ELSE LET rd == ReadDescriptor(bytes, pos)
             cd == ReadDescriptor(bytes, rd.next)
             sub == Parse(bytes, cd.next, path \o <<k>>, rd.set, cd.set)
             rest == ParseChildren(bytes, sub.next, path, k + 1, cnt,
                                   Append(done, [rows |-> rd.set, cols |-> cd.set]))
         IN  [nodes |-> sub.nodes \cup rest.nodes, children |-> rest.children,
              next |-> rest.next]

\* CompressedFormFactorMatrix.from_file: the operator held in the bytes
Load(bytes) ==
    IF Len(bytes) < TreeStart \/ SubSeq(bytes, 1, Len(Magic)) /= Magic
       \/ Rd(bytes, Len(Magic) + 1, 4) /= Version
    THEN Raise("SerializationError")
    ELSE LET n == Rd(bytes, Len(Magic) + 5, 8)
             r == Parse(bytes, TreeStart, <<>>, AllFaces(n), AllFaces(n))
         IN  IF r.next /= Len(bytes) + 1 THEN Raise("SerializationError")
             ELSE Ok([N |-> n,
                      tol |-> SubSeq(bytes, Len(Magic) + 13, Len(Magic) + 20),
                      min_size |-> Rd(bytes, Len(Magic) + 21, 4),
                      arity |-> Rd(bytes, Len(Magic) + 25, 1),
                      nodes |-> r.nodes])

-----------------------------------------------------------------------------
(* The frames of the calls made on the operator *)

\* no assembly running
IdleAsm == [pc |-> "idle", todo |-> <<>>, nodes |-> {}]

\* no product running
IdleAp == [pc |-> "idle", x |-> <<>>, queue |-> <<>>, running |-> {}, y |-> <<>>]

\* no call made yet
NoResult == [kind |-> "none", exc |-> "", val |-> <<>>]

\* the input vectors of the product
HVectors == {[i \in HFaces |-> 1], [i \in HFaces |-> IF i = 0 THEN 1 ELSE 0]}

\* no operator in use
HierIdle ==
    /\ cent = <<>>
    /\ asm = IdleAsm
    /\ FF = NoOperator
    /\ ap = IdleAp
    /\ cancel = FALSE
    /\ hout = NoResult
    /\ file = <<>>
    /\ FF2 = NoOperator

-----------------------------------------------------------------------------
(* The shape model as a state machine: a constructed model and the queries *)
(* made on it.                                                              *)

NoDir == [ndim |-> 0, rows |-> <<>>]

NoCall ==
    [op |-> "none", I |-> <<>>, J |-> <<>>, oriented |-> FALSE, D |-> NoDir,
     F0 |-> 0, unit_Svec |-> FALSE, basemesh |-> NoMesh, Dafter |-> NoDir]

SolarConstants == {1365}

SolverIdle ==
    /\ heap = <<>>
    /\ sk = IdleSk
    /\ ct = IdleCt
    /\ applies = 0
    /\ out = NoOut

\* the fields of a model constructed as class c from the faces Fa of Vertices
Constructed(c, Fa) ==
    LET m == TrimeshShapeModelInit(c, Array("float32", Vertices), Fa, None, None, None).val
    IN  /\ V = m.V
        /\ F = m.F
        /\ A = m.A
        /\ P = m.P
        /\ N = [i \in DOMAIN m.N |-> m.N[i].v]
        /\ cls = m.cls

Init ==
    /\ \E c \in Impls, Fa \in [Faces -> SoundFaces] : Constructed(c, Fa)
    /\ firstHit \in [Rays -> Faces \cup {NoHit}]
    /\ aabbNear \in BOOLEAN
    /\ occ = [r \in Faces \X Dirs |-> FALSE]
    /\ call = NoCall
    /\ ret = Ok(<<>>)
    /\ SolverIdle
    /\ HierIdle

\* variant: the separations are formed in place, self.P -= self.P[I[0]]
GetVisibilityInPlace ==
    /\ call.op = "none"
    /\ \E I \in IndexArrays, J \in IndexArrays, oriented \in BOOLEAN :
        /\ call' = [NoCall EXCEPT !.op = "get_visibility", !.I = I, !.J = J,
                                  !.oriented = oriented]
        /\ ret' = get_visibility(cls, I, J, oriented)
        /\ P' = [k \in Faces |-> VSub(P[k], P[I[0]])]
        /\ UNCHANGED <<V, F, A, N, firstHit, aabbNear, occ, cls, solveVars, hierVars>>

GetVisibility ==
    /\ call.op = "none"
    /\ \E I \in IndexArrays, J \in IndexArrays, oriented \in BOOLEAN :
        /\ call' = [NoCall EXCEPT !.op = "get_visibility", !.I = I, !.J = J,
                                  !.oriented = oriented]
        /\ ret' = get_visibility(cls, I, J, oriented)
        /\ UNCHANGED <<modelVars, solveVars, hierVars>>

GetVisibility1toN ==
    /\ call.op = "none"
    /\ \E i \in Faces, J \in IndexArrays, oriented \in BOOLEAN :
        /\ call' = [NoCall EXCEPT !.op = "get_visibility_1_to_N",
                                  !.I = [k \in {0} |-> i], !.J = J,
                                  !.oriented = oriented]
        /\ ret' = get_visibility_1_to_N(cls, i, J, oriented)
        /\ UNCHANGED <<modelVars, solveVars, hierVars>>

GetVisibilityMatrix ==
    /\ call.op = "none"
    /\ \E oriented \in BOOLEAN :
        /\ call' = [NoCall EXCEPT !.op = "get_visibility_matrix",
                                  !.I = Arange(NumFaces), !.J = Arange(NumFaces),
                                  !.oriented = oriented]
        /\ ret' = get_visibility_matrix(cls, oriented)
        /\ UNCHANGED <<modelVars, solveVars, hierVars>>

\* the caller takes the result; the model is ready for the next query
Return ==
    /\ call.op /= "none"
    /\ call' = NoCall
    /\ ret' = Ok(<<>>)
    /\ UNCHANGED <<modelVars, solveVars, hierVars>>

Next == GetVisibility \/ GetVisibility1toN \/ GetVisibilityMatrix \/ Return

Spec == Init /\ [][Next]_vars

-----------------------------------------------------------------------------
(* Shadow queries *)

OccInit ==
    /\ \E c \in Impls, Fa \in [Faces -> {<<0, 1, 2>>, <<0, 2, 1>>}] : Constructed(c, Fa)
    /\ firstHit = [r \in Rays |-> NoHit]
    /\ aabbNear = FALSE
    /\ occ \in [Faces \X Dirs -> BOOLEAN]
    /\ call = NoCall
    /\ ret = Ok(<<>>)
    /\ SolverIdle
    /\ HierIdle

IsOccluded ==
    /\ call.op = "none"
    /\ \E I \in IndexArrays, D \in DirArgs :
        /\ call' = [NoCall EXCEPT !.op = "is_occluded", !.I = I, !.D = D]
        /\ ret' = is_occluded(cls, I, D)
        /\ UNCHANGED <<modelVars, solveVars, hierVars>>

GetDirectIrradiance ==
    /\ call.op = "none"
    /\ \E F0 \in SolarConstants, Dsun \in DirArgs, unit_Svec \in BOOLEAN,
          basemesh \in {NoMesh} \cup BaseMeshes :
        /\ call' = [NoCall EXCEPT !.op = "get_direct_irradiance", !.D = Dsun,
                                  !.F0 = F0, !.unit_Svec = unit_Svec,
                                  !.basemesh = basemesh,
                                  !.Dafter = DsunAfter(cls, F0, Dsun, unit_Svec, basemesh)]
        /\ ret' = get_direct_irradiance(cls, F0, Dsun, unit_Svec, basemesh)
        /\ UNCHANGED <<modelVars, solveVars, hierVars>>

OccNext == IsOccluded \/ GetDirectIrradiance \/ Return

OccSpec == OccInit /\ [][OccNext]_vars

-----------------------------------------------------------------------------
(* All queries on one model, in any order *)

QueryNext ==
    \/ GetVisibility
    \/ GetVisibility1toN
    \/ GetVisibilityMatrix
    \/ IsOccluded
    \/ GetDirectIrradiance
    \/ Return

QuerySpec == Init /\ [][QueryNext]_vars

-----------------------------------------------------------------------------
(* Construction: a caller builds a shape model from a mesh; the outcome of *)
(* the constructor is the new model or the exception raised.               *)

Classes == Impls \cup {"TrimeshShapeModel"}

\* the optional argument N: absent, or normals for all faces or for one less
NormalArgs ==
    {None} \cup
    {Array(dt, [i \in 0..(k - 1) |-> [nan |-> FALSE, v |-> <<0, 0, 1>>]]) :
        dt \in Dtypes, k \in {NumFaces - 1, NumFaces}}

\* the optional argument P
CentroidArgs == {None, Array("float32", [i \in Faces |-> <<9, 9, 9>>])}

\* the optional argument A
AreaArgs == {None} \cup {Array(dt, [i \in Faces |-> 54]) : dt \in Dtypes}

BuildInit ==
    /\ Constructed("cgal", [i \in Faces |-> <<0, 1, 2>>])
    /\ firstHit = [r \in Rays |-> NoHit]
    /\ aabbNear = FALSE
    /\ occ = [r \in Faces \X Dirs |-> FALSE]
    /\ call = NoCall
    /\ ret = Ok(<<>>)
    /\ SolverIdle
    /\ HierIdle

Construct ==
    /\ call.op = "none"
    /\ \E c \in Classes, dt \in Dtypes, Fa \in [Faces -> SoundFaces \cup DegenerateFaces],
          Narg \in NormalArgs, Parg \in CentroidArgs, Aarg \in AreaArgs :
        /\ call' = [op |-> "__init__", cls |-> c, V |-> Array(dt, Vertices), F |-> Fa,
                    N |-> Narg, P |-> Parg, A |-> Aarg]
        /\ ret' = TrimeshShapeModelInit(c, Array(dt, Vertices), Fa, Narg, Parg, Aarg)
        /\ UNCHANGED <<modelVars, solveVars, hierVars>>

\* __reduce__: the class and the arguments a pickled model is rebuilt from
__reduce__ ==
    [cls |-> cls,
     V |-> Array("float32", V),
     F |-> F,
     N |-> Array("float32", [i \in DOMAIN N |-> [nan |-> FALSE, v |-> N[i]]]),
     P |-> Array("float32", P),
     A |-> Array("float32", A)]

\* the model is unpickled: its class is called on the tuple of __reduce__
Unpickle ==
    /\ call.op = "none"
    /\ LET r == __reduce__
       IN  /\ call' = [op |-> "__init__", cls |-> r.cls, V |-> r.V, F |-> r.F,
                       N |-> r.N, P |-> r.P, A |-> r.A]
           /\ ret' = TrimeshShapeModelInit(r.cls, r.V, r.F, r.N, r.P, r.A)
    /\ UNCHANGED <<modelVars, solveVars, hierVars>>

BuildNext == Construct \/ Unpickle \/ Return

BuildSpec == BuildInit /\ [][BuildNext]_vars

-----------------------------------------------------------------------------
(* The solver as a state machine: one call of solve_kernel_system or of    *)
(* compute_T, one pass of the loop per step.                                *)

SolveInit ==
    /\ Constructed("embree", [i \in Faces |-> <<0, 1, 2>>])
    /\ firstHit = [r \in Rays |-> NoHit]
    /\ aabbNear = FALSE
    /\ occ = [r \in Faces \X Dirs |-> FALSE]
    /\ call = NoCall
    /\ ret = Ok(<<>>)
    /\ SolverIdle
    /\ HierIdle

\* a caller runs solve_kernel_system(L, b, rho, tol)
SolveCall ==
    /\ sk.pc = "idle" /\ ct.pc = "idle"
    /\ \E Lm \in Operators, b \in RightHandSides, rho \in Albedos, tol \in Tolerances :
        /\ heap' = <<b>>
        /\ sk' = SolveEnter(Lm, 1, rho, tol, <<b>>, 0)
        /\ applies' = 1
        /\ UNCHANGED <<ct, out, shapeVars, hierVars>>

\* a caller runs compute_T(L, E, rho, emiss, tol)
ComputeTCall ==
    /\ sk.pc = "idle" /\ ct.pc = "idle"
    /\ \E Lm \in Operators, E \in RightHandSides, rho \in Albedos,
          emiss \in Emissivities, tol \in Tolerances :
        /\ heap' = <<E>>
        /\ ct' = [IdleCt EXCEPT !.pc = "solve1", !.E = 1, !.E0 = E, !.Q = 1,
                                !.rho = rho, !.emiss = emiss, !.tol = tol]
        /\ sk' = SolveEnter(Lm, 1, rho, tol, <<E>>, 0)
        /\ applies' = 1
        /\ UNCHANGED <<out, shapeVars, hierVars>>

\* the loop condition holds: one pass of the body
SolveIterate ==
    /\ sk.pc = "while"
    /\ WhileCond(sk)
    /\ sk.nmul < MaxIter
    /\ heap' = LoopBody(sk, heap).heap
    /\ sk' = LoopBody(sk, heap).sk
    /\ applies' = applies + 1
    /\ UNCHANGED <<ct, out, shapeVars, hierVars>>

\* the loop condition fails: the loop is left
SolveExit ==
    /\ sk.pc = "while"
    /\ ~WhileCond(sk)
    /\ sk' = [sk EXCEPT !.pc = "return"]
    /\ UNCHANGED <<heap, ct, applies, out, shapeVars, hierVars>>

\* return x, nmul to the caller of solve_kernel_system
SolveReturn ==
    /\ sk.pc = "return" /\ ct.pc = "idle"
    /\ out' = [kind |-> "solve_kernel_system", x |-> heap[sk.x], ref |-> sk.x,
               nmul |-> sk.nmul, flux |-> <<>>]
    /\ sk' = [sk EXCEPT !.pc = "done"]
    /\ UNCHANGED <<heap, ct, applies, shapeVars, hierVars>>

ComputeTScale ==
    /\ sk.pc = "return" /\ ct.pc = "solve1"
    /\ heap' = AfterSolve1(ct, sk, heap, applies).heap
    /\ ct' = AfterSolve1(ct, sk, heap, applies).ct
    /\ sk' = AfterSolve1(ct, sk, heap, applies).sk
    /\ applies' = applies + 1
    /\ UNCHANGED <<out, shapeVars, hierVars>>

ComputeTFinish ==
    /\ sk.pc = "return" /\ ct.pc = "solve2"
    /\ ct' = AfterSolve2(ct, sk, heap).ct
    /\ out' = AfterSolve2(ct, sk, heap).out
    /\ sk' = [sk EXCEPT !.pc = "done"]
    /\ UNCHANGED <<heap, applies, shapeVars, hierVars>>

SolveNext ==
    \/ SolveCall
    \/ ComputeTCall
    \/ SolveIterate
    \/ SolveExit
    \/ SolveReturn
    \/ ComputeTScale
    \/ ComputeTFinish

SolveSpec == SolveInit /\ [][SolveNext]_vars

\* the states in which each step of a running call can be taken
IterateEnabled == sk.pc = "while" /\ WhileCond(sk) /\ sk.nmul < MaxIter

ScaleEnabled == sk.pc = "return" /\ ct.pc = "solve1"

FinishEnabled == sk.pc = "return" /\ ct.pc = "solve2"

\* a running call keeps running: the interpreter executes the next statement.
\* Weak fairness of the three computing steps is written out with the
\* step's guard in place of ENABLED.
FairSolveSpec ==
    /\ SolveSpec
    /\ ([]<>(~IterateEnabled) \/ []<><<SolveIterate>>_vars)
    /\ WF_vars(SolveExit)
    /\ WF_vars(SolveReturn)
    /\ ([]<>(~ScaleEnabled) \/ []<><<ComputeTScale>>_vars)
    /\ ([]<>(~FinishEnabled) \/ []<><<ComputeTFinish>>_vars)

-----------------------------------------------------------------------------
(* The operator as a state machine: assembly block by block, the product   *)
(* with a vector by workers that take the blocks in order, save and load,  *)
(* and the cancellation signal of section 5.                               *)

HierInit ==
    /\ Constructed("embree", [i \in Faces |-> <<0, 1, 2>>])
    /\ firstHit = [r \in Rays |-> NoHit]
    /\ aabbNear = FALSE
    /\ occ = [r \in Faces \X Dirs |-> FALSE]
    /\ call = NoCall
    /\ ret = Ok(<<>>)
    /\ SolverIdle
    /\ cent \in Centroids
    /\ asm = IdleAsm
    /\ FF = NoOperator
    /\ ap = IdleAp
    /\ cancel = FALSE
    /\ hout = NoResult
    /\ file = <<>>
    /\ FF2 = NoOperator

\* a caller runs FormFactorMatrix.assemble_using_quadtree
AssembleCall ==
    /\ asm.pc = "idle" /\ ap.pc = "idle" /\ FF = NoOperator
    /\ asm' = [pc |-> "run",
               todo |-> <<Block(<<>>, AllFaces(HierFaces), AllFaces(HierFaces))>>,
               nodes |-> {}]
    /\ cancel' = FALSE
    /\ hout' = NoResult
    /\ UNCHANGED <<cent, FF, ap, file, FF2, shapeVars, solveVars>>

\* the next block is assembled; the children of an internal block are
\* visited before the blocks that were waiting (pre-order)
AssembleBlock ==
    /\ asm.pc = "run" /\ asm.todo /= <<>> /\ ~cancel
    /\ LET n == VisitBlock(cent, Head(asm.todo))
       IN  asm' = [asm EXCEPT !.todo = ChildBlocks(n) \o Tail(asm.todo),
                              !.nodes = asm.nodes \cup {n}]
    /\ UNCHANGED <<cent, FF, ap, cancel, hout, file, FF2, shapeVars, solveVars>>

\* variant: on cancellation the nodes assembled so far are handed to the
\* caller
AssembleCancelledKeepsNodes ==
    /\ asm.pc = "run" /\ cancel
    /\ FF' = Operator(HierFaces, asm.nodes)
    /\ asm' = IdleAsm
    /\ hout' = Raise("Cancelled")
    /\ UNCHANGED <<cent, ap, cancel, file, FF2, shapeVars, solveVars>>

\* the signal is seen at a block boundary: the nodes are dropped and the
\* call ends with Cancelled
AssembleCancelled ==
    /\ asm.pc = "run" /\ cancel
    /\ asm' = IdleAsm
    /\ hout' = Raise("Cancelled")
    /\ UNCHANGED <<cent, FF, ap, cancel, file, FF2, shapeVars, solveVars>>

\* no block is left: the operator is returned
AssembleReturn ==
    /\ asm.pc = "run" /\ asm.todo = <<>> /\ ~cancel
    /\ FF' = Operator(HierFaces, asm.nodes)
    /\ asm' = IdleAsm
    /\ hout' = Ok(<<>>)
    /\ UNCHANGED <<cent, ap, cancel, file, FF2, shapeVars, solveVars>>

\* a caller runs FF @ x
ApplyCall ==
    /\ asm.pc = "idle" /\ ap.pc = "idle" /\ FF /= NoOperator
    /\ \E x \in HVectors :
        ap' = [pc |-> "run", x |-> x, queue |-> << <<>> >>, running |-> {},
               y |-> [i \in HFaces |-> 0]]
    /\ cancel' = FALSE
    /\ hout' = NoResult
    /\ UNCHANGED <<cent, asm, FF, file, FF2, shapeVars, solveVars>>

\* a free worker takes the next block: the children of an internal block
\* join the queue, a leaf is started
ApplyTake ==
    /\ ap.pc = "run" /\ ap.queue /= <<>> /\ ~cancel
    /\ Cardinality(ap.running) < Workers
    /\ LET n == NodeAt(FF.nodes, Head(ap.queue))
       IN  IF n.tag = "internal"
           THEN ap' = [ap EXCEPT !.queue = [k \in 1 .. Len(n.children) |-> n.path \o <<k>>]
                                           \o Tail(ap.queue)]
           ELSE ap' = [ap EXCEPT !.queue = Tail(ap.queue),
                                 !.running = ap.running \cup {n.path}]
    /\ UNCHANGED <<cent, asm, FF, cancel, hout, file, FF2, shapeVars, solveVars>>

\* a started leaf accumulates its product into y and ends
ApplyWrite ==
    /\ ap.pc = "run"
    /\ \E p \in ap.running :
        ap' = [ap EXCEPT !.y = LeafApply(NodeAt(FF.nodes, p), ap.x, ap.y),
                         !.running = ap.running \ {p}]
    /\ UNCHANGED <<cent, asm, FF, cancel, hout, file, FF2, shapeVars, solveVars>>

\* the signal is seen at a block boundary: y is dropped and the call ends
\* with Cancelled
ApplyCancelled ==
    /\ ap.pc = "run" /\ cancel /\ ap.running = {}
    /\ ap' = IdleAp
    /\ hout' = Raise("Cancelled")
    /\ UNCHANGED <<cent, asm, FF, cancel, file, FF2, shapeVars, solveVars>>

\* every block is applied: y is returned
ApplyReturn ==
    /\ ap.pc = "run" /\ ap.queue = <<>> /\ ap.running = {} /\ ~cancel
    /\ hout' = Ok(ap.y)
    /\ ap' = IdleAp
    /\ UNCHANGED <<cent, asm, FF, cancel, file, FF2, shapeVars, solveVars>>

\* the caller raises the cancellation signal of the running call
Cancel ==
    /\ asm.pc = "run" \/ ap.pc = "run"
    /\ ~cancel
    /\ cancel' = TRUE
    /\ UNCHANGED <<cent, asm, FF, ap, hout, file, FF2, shapeVars, solveVars>>

\* a caller runs FF.save
SaveCall ==
    /\ asm.pc = "idle" /\ ap.pc = "idle" /\ FF /= NoOperator /\ file = <<>>
    /\ file' = Save(FF)
    /\ hout' = Ok(<<>>)
    /\ UNCHANGED <<cent, asm, FF, ap, cancel, FF2, shapeVars, solveVars>>

\* a caller runs CompressedFormFactorMatrix.from_file on the saved file
LoadCall ==
    /\ asm.pc = "idle" /\ ap.pc = "idle" /\ file /= <<>> /\ FF2 = NoOperator
    /\ LET r == Load(file)
       IN  /\ hout' = r
           /\ FF2' = IF r.kind = "ok" THEN r.val ELSE NoOperator
    /\ UNCHANGED <<cent, asm, FF, ap, cancel, file, shapeVars, solveVars>>

HierNext ==
    \/ AssembleCall \/ AssembleBlock \/ AssembleCancelled \/ AssembleReturn
    \/ ApplyCall \/ ApplyTake \/ ApplyWrite \/ ApplyCancelled \/ ApplyReturn
    \/ Cancel \/ SaveCall \/ LoadCall

HierSpec == HierInit /\ [][HierNext]_vars

\* the states in which a running call can take its next step
CancelSeenByAssembly == asm.pc = "run" /\ cancel

LeafStarted == ap.pc = "run" /\ ap.running /= {}

CancelSeenByApply == ap.pc = "run" /\ cancel /\ ap.running = {}

\* a running call keeps running: a started leaf ends, and a call that can
\* see the signal at a block boundary ends.  Weak fairness is written out
\* with the step's guard in place of ENABLED.
FairHierSpec ==
    /\ HierSpec
    /\ ([]<>(~CancelSeenByAssembly) \/ []<><<AssembleCancelled>>_vars)
    /\ ([]<>(~LeafStarted) \/ []<><<ApplyWrite>>_vars)
    /\ ([]<>(~CancelSeenByApply) \/ []<><<ApplyCancelled>>_vars)

-----------------------------------------------------------------------------
(* Properties of the shape model *)

\* the direction of ray p of an is_occluded or get_direct_irradiance call
DirOf(D, p) == IF D.ndim = 1 THEN D.rows[0] ELSE D.rows[p]

\* C1: for a single sun direction get_direct_irradiance returns, for every
\* face i, F0 * max(0, N[i].Dsun) when the ray toward the sun escapes and 0
\* when it is occluded.
C1_DirectIrradiance ==
    (call.op = "get_direct_irradiance" /\ call.D.ndim = 1) =>
        /\ ret.kind = "ok"
        /\ DOMAIN ret.val = Faces
        /\ \A i \in Faces :
              ret.val[i] = IF occ[<<i, call.D.rows[0]>>]
                           THEN 0
                           ELSE call.F0 * Max(0, Dot(N[i], call.D.rows[0]))

\* the entry of the returned mask for row p, column q
VisEntry(p, q) ==
    IF call.op = "get_visibility_1_to_N" THEN ret.val[q] ELSE ret.val[p][q]

VisibilityCall ==
    call.op \in {"get_visibility", "get_visibility_1_to_N", "get_visibility_matrix"}

\* C2: faces never see themselves: whatever I, J, oriented and the class,
\* the entry of the mask is False wherever I[p] = J[q]; the diagonal of the
\* visibility matrix is all False.
C2_NoSelfVisibility ==
    VisibilityCall =>
        /\ ret.kind = "ok"
        /\ \A p \in DOMAIN call.I, q \in DOMAIN call.J :
              call.I[p] = call.J[q] => VisEntry(p, q) = FALSE

\* a full visibility matrix of the Embree class with a visible pair of faces
C2_Witness ==
    /\ call.op = "get_visibility_matrix"
    /\ cls = "embree"
    /\ \E p, q \in Faces : ret.val[p][q]
    /\ \A p \in Faces : ~ret.val[p][p]

\* C3: with oriented=True two faces are reported visible only if each is
\* oriented toward the other: (P[j]-P[i]).N[i] > 0 and (P[i]-P[j]).N[j] > 0.
C3_OrientedBothWays ==
    (VisibilityCall /\ call.oriented) =>
        \A p \in DOMAIN call.I, q \in DOMAIN call.J :
            VisEntry(p, q) =>
                LET i == call.I[p]
                    j == call.J[q]
                IN  /\ Dot(VSub(P[j], P[i]), N[i]) > 0
                    /\ Dot(VSub(P[i], P[j]), N[j]) > 0

\* D is one vector, or holds one direction per ray
OneDirPerRay(I, D) == D.ndim = 1 \/ (D.ndim = 2 /\ ALen(D.rows) = ALen(I))

\* C4: is_occluded(I, D) returns one boolean per index of I; entry p tells
\* whether the ray from the centroid of face I[p] along D (one vector) or
\* D[p] (one direction per ray) is occluded; for both classes and every I.
C4_IsOccluded ==
    (call.op = "is_occluded" /\ OneDirPerRay(call.I, call.D)) =>
        /\ ret.kind = "ok"
        /\ DOMAIN ret.val = DOMAIN call.I
        /\ \A p \in DOMAIN call.I :
              ret.val[p] = occ[<<call.I[p], DirOf(call.D, p)>>]

\* the same boolean array, or an error in both
SameOutcome(a, b) == a.kind = b.kind /\ (a.kind = "ok" => a.val = b.val)

OtherClass(c) == IF c = "cgal" THEN "embree" ELSE "cgal"

\* C5: the two classes are interchangeable: on the same mesh, scene and
\* arguments, get_visibility and is_occluded end the same way in both.
C5_Interchangeable ==
    /\ call.op = "get_visibility" =>
          SameOutcome(ret, get_visibility(OtherClass(cls), call.I, call.J, call.oriented))
    /\ call.op = "is_occluded" =>
          SameOutcome(ret, is_occluded(OtherClass(cls), call.I, call.D))

-----------------------------------------------------------------------------
(* Properties of the solver *)

RECURSIVE Power(_, _, _)
\* L^n v
Power(Lm, n, v) == IF n = 0 THEN v ELSE Power(Lm, n - 1, MatVec(Lm, v))

Basis(j) == [k \in Idx |-> IF k = j THEN One ELSE Zero]

\* the Neumann series of L is finite
Nilpotent(Lm) == \A j \in Idx : Power(Lm, Dim, Basis(j)) = ZeroVec

\* C6: solve_kernel_system iterates x_{k+1} = b + alpha*L*x_k from x0 = b and
\* returns the last iterate, so for a nilpotent L the x returned once the
\* residual is zero satisfies x = b + alpha*L*x.
C6_NeumannFixedPoint ==
    (out.kind = "solve_kernel_system" /\ Nilpotent(sk.L) /\ sk.err = Zero) =>
        out.x = VecAdd(heap[sk.b], Scale(sk.rho, MatVec(sk.L, out.x)))

\* L has non-negative entries and row sums at most 1
RowSumsAtMostOne(Lm) ==
    \A r \in Idx : ~RLt(One, RSum(Lm[r], Idx)) /\ \A k \in Idx : ~RLt(Lm[r][k], Zero)

\* the call is at its while statement, on inputs the claim admits
InLoop ==
    /\ sk.pc = "while"
    /\ RowSumsAtMostOne(sk.L)
    /\ ~RLt(One, sk.rho)
    /\ RLt(Zero, sk.tol)

AtReturn == sk.pc = "return"

\* C7: solve_kernel_system terminates: for L non-negative with row sums at
\* most 1, alpha <= 1 and tol > 0 the loop is left after finitely many passes
\* and the return statement is reached.
C7_Terminates == InLoop ~> AtReturn

\* a solve that returns after it went through the loop body
C7_Witness ==
    /\ sk.pc = "return"
    /\ sk.nmul > 1
    /\ RowSumsAtMostOne(sk.L)
    /\ ~Nilpotent(sk.L)

\* C8: the reported count is the number of products executed: nmul of
\* solve_kernel_system counts the products L@v of that call, and compute_T
\* returns the sum of the counts of its two solves.
C8_CountsApplies ==
    /\ sk.pc \in {"while", "return", "done"} => sk.nmul = applies - sk.first
    /\ out.kind = "solve_kernel_system" => out.nmul = applies
    /\ out.kind = "compute_T" =>
          /\ out.nmul = applies
          /\ out.nmul = ct.nmul1 + ct.nmul2
          /\ ct.nmul2 = sk.nmul

\* compute_T returned after a solve that went through the loop body
C8_Witness == out.kind = "compute_T" /\ ct.nmul1 > 1 /\ out.nmul > ct.nmul1

ZeroTemperature == Root4(DivSigma(Zero))

\* C9: zero illumination gives zero temperature: when E is zero on every
\* face compute_T returns T = 0 on every face, whatever L, rho and emiss > 0.
C9_ZeroIllumination ==
    (out.kind = "compute_T" /\ ct.E0 = ZeroVec) =>
        \A k \in Idx : out.x[k] = ZeroTemperature /\ ~out.x[k].nan

\* compute_T returned for a dark mesh whose faces see each other
C9_Witness ==
    /\ out.kind = "compute_T"
    /\ ct.E0 = ZeroVec
    /\ sk.L /= ZeroMat
    /\ ct.rho = <<1, 2>>

\* the closed form (E(1 - rho)/(emiss*sigma))^(1/4) and its radicand
ClosedFormFlux(E, rho, emiss) == DivSigma(RDiv(RMul(E, RSub(One, rho)), emiss))

\* C10: on a mesh with no self-view (L = 0) each solve takes exactly one
\* product and never enters the loop body, and the flux compute_T takes the
\* fourth root of is E[i](1 - rho)/(emiss*sigma) on every face.
C10_NoSelfView ==
    /\ (sk.pc /= "idle" /\ sk.L = ZeroMat) => sk.nmul = 1
    /\ (out.kind = "compute_T" /\ sk.L = ZeroMat) =>
          /\ ct.nmul1 = 1 /\ ct.nmul2 = 1 /\ out.nmul = 2
          /\ \A k \in Idx :
                /\ out.flux[k] = ClosedFormFlux(ct.E0[k], ct.rho, ct.emiss)
                /\ out.x[k] = Root4(ClosedFormFlux(ct.E0[k], ct.rho, ct.emiss))

\* compute_T returned for an illuminated mesh with no self-view
C10_Witness ==
    /\ out.kind = "compute_T"
    /\ sk.L = ZeroMat
    /\ ct.E0 /= ZeroVec
    /\ ct.rho = <<1, 2>>
    /\ ct.emiss = <<1, 2>>

-----------------------------------------------------------------------------
(* Properties of the direct irradiance *)

\* the irradiance of a lit face with normal n under the sun vector d:
\* F0 * max(0, n.d/|d|), times (1 AU)^2/|d|^2 when the flux is rescaled
SunFlux(F0v, n, d, rescaled) ==
    [F0 |-> F0v, cos |-> Max(0, Dot(n, d)), distSq |-> NormSq(d), AU2 |-> rescaled]

\* C12: batch irradiance: with M sun directions (Dsun of shape M x 3) and
\* the default arguments get_direct_irradiance returns num_faces rows and M
\* columns, entry [i, k] being the direct irradiance of face i under
\* direction k, 0 if face i is shadowed for direction k.
C12_BatchIrradiance ==
    (call.op = "get_direct_irradiance" /\ call.D.ndim = 2 /\ ~call.unit_Svec) =>
        /\ ret.kind = "ok"
        /\ DOMAIN ret.val = Faces
        /\ \A i \in Faces :
              /\ DOMAIN ret.val[i] = DOMAIN call.D.rows
              /\ \A k \in DOMAIN call.D.rows :
                    IF occ[<<i, call.D.rows[k]>>]
                    THEN ret.val[i][k] = 0
                    ELSE ret.val[i][k] = SunFlux(call.F0, N[i], call.D.rows[k], TRUE)

\* C13: distance rescaling: with unit_Svec false F0 is multiplied by
\* (1 AU/|Dsun|)^2, |Dsun| the length of the vector as the caller passed
\* it, one factor per direction; with unit_Svec true F0 is used unscaled.
C13_DistanceRescaling ==
    call.op = "get_direct_irradiance" =>
        /\ ret.kind = "ok"
        /\ \A i \in Faces, k \in DOMAIN call.D.rows :
              ~occ[<<i, call.D.rows[k]>>] =>
                  (IF call.D.ndim = 1 THEN ret.val[i] ELSE ret.val[i][k])
                      = SunFlux(call.F0, N[i], call.D.rows[k], ~call.unit_Svec)

\* the centroids of faces i and j are closer than eps
ZeroSeparation(i, j) == NormSq(VSub(P[j], P[i])) * EpsInv * EpsInv <= 1

\* C14: rays with zero direction are reported as occluded: get_visibility
\* never reports True for two distinct faces whose centroid separation is
\* zero (or below eps), and is_occluded with a zero direction vector
\* reports the ray as occluded.
C14_ZeroDirectionOccluded ==
    /\ VisibilityCall =>
          /\ ret.kind = "ok"
          /\ \A p \in DOMAIN call.I, q \in DOMAIN call.J :
                (call.I[p] /= call.J[q] /\ ZeroSeparation(call.I[p], call.J[q]))
                    => ~VisEntry(p, q)
    /\ call.op = "is_occluded" =>
          \A p \in DOMAIN call.I :
              (p \in DOMAIN call.D.rows /\ NormSq(DirOf(call.D, p)) = 0)
                  => (ret.kind = "ok" /\ ret.val[p])

\* C15: the mesh is read-only after construction: no query, in any order
\* and any number of times, changes the model's V, F, N, P or A.
C15_MeshReadOnly == [][UNCHANGED <<V, F, N, P, A>>]_vars

\* a query has returned on a model whose faces differ, and the centroids and
\* areas are still those of the vertices and faces
C15_Witness ==
    /\ call.op \in {"get_visibility", "is_occluded"}
    /\ ret.kind = "ok"
    /\ P[0] /= P[1]
    /\ P = get_centroids(V, F)
    /\ A = get_face_areas(V, F)

-----------------------------------------------------------------------------
(* Properties of the constructor *)

\* the cross product of the edges of face f is zero
Degenerate(Vr, f) == NormSq(Cross(VSub(Vr[f[2]], Vr[f[1]]), VSub(Vr[f[3]], Vr[f[1]]))) = 0

\* C11: degenerate triangles are rejected at construction: a mesh with a
\* face of zero area makes the constructor fail, so every constructed model
\* has A[i] > 0 and a well-defined unit normal N[i] for every face.
C11_DegenerateRejected ==
    call.op = "__init__" =>
        /\ (\E i \in DOMAIN call.F : Degenerate(call.V.rows, call.F[i])) => ret.kind = "raise"
        /\ ret.kind = "ok" =>
              \A i \in DOMAIN ret.val.F : ret.val.A[i] > 0 /\ ~ret.val.N[i].nan

C22_NormalsPerFace ==
    call.op = "__init__" =>
        /\ (call.N.given /\ ALen(call.N.rows) /= ALen(call.F)) => ret.kind = "raise"
        /\ ret.kind = "ok" => ALen(ret.val.N) = ALen(ret.val.F)

C20_BasemeshShadows ==
    (call.op = "get_direct_irradiance" /\ call.basemesh.given) =>
        /\ ret.kind = "ok"
        /\ call.D.ndim = 1 =>
              /\ DOMAIN ret.val = Faces
              /\ \A i \in Faces :
                    ret.val[i] = IF call.basemesh.shadows[<<P[i], call.D.rows[0]>>]
                                 THEN 0
                                 ELSE call.F0 * Max(0, Dot(N[i], call.D.rows[0]))

-----------------------------------------------------------------------------
(* Properties of the hierarchical operator *)

InternalNodes(nodes) == {n \in nodes : n.tag = "internal"}

Leaves(nodes) == {n \in nodes : n.tag /= "internal"}

\* the row index sets and the column index sets of the children of n
RowSets(n) == {SeqRange(n.children[k].rows) : k \in 1 .. Len(n.children)}

ColSets(n) == {SeqRange(n.children[k].cols) : k \in 1 .. Len(n.children)}

\* the sets of S are not empty, pairwise disjoint, and their union is U
Partitions(S, U) ==
    /\ {} \notin S
    /\ \A a, b \in S : a /= b => a \cap b = {}
    /\ UNION S = U

\* every node the operator needs is there and every pair of a row and a
\* column lies in exactly one leaf
Complete(ff) ==
    /\ \A n \in InternalNodes(ff.nodes) :
          \A k \in 1 .. Len(n.children) : \E c \in ff.nodes : c.path = n.path \o <<k>>
    /\ \A i, j \in 0 .. (ff.N - 1) :
          Cardinality({n \in Leaves(ff.nodes) :
                          i \in SeqRange(n.rows) /\ j \in SeqRange(n.cols)}) = 1

\* C16: tree partition invariant: for every internal node of the operator,
\* being assembled, assembled or loaded, the row index sets of its children
\* are pairwise disjoint and their union is the node's row index set, the
\* same holds for the column index sets, and there is one child for every
\* pair of a row set and a column set; so in an assembled operator every
\* pair of a row and a column lies in exactly one leaf.
C16_TreePartition ==
    /\ \A n \in InternalNodes(asm.nodes \cup FF.nodes \cup FF2.nodes) :
          /\ Partitions(RowSets(n), SeqRange(n.rows))
          /\ Partitions(ColSets(n), SeqRange(n.cols))
          /\ Len(n.children) = Cardinality(RowSets(n)) * Cardinality(ColSets(n))
    /\ FF /= NoOperator => Complete(FF)

\* an operator is assembled in which a split block lies below the root
C16_Witness ==
    /\ FF /= NoOperator
    /\ \E n \in InternalNodes(FF.nodes) : n.path /= <<>> /\ Cardinality(RowSets(n)) >= 2

\* blocks p and q are children of one internal node
Siblings(p, q) ==
    /\ p /= q
    /\ Len(p) = Len(q) /\ Len(p) > 0
    /\ SubSeq(p, 1, Len(p) - 1) = SubSeq(q, 1, Len(q) - 1)

\* C17: the product needs no locking: no two sibling blocks that are being
\* applied at the same time write the same entry of y.
C17_ApplyNeedsNoLocking ==
    \A p, q \in ap.running :
        Siblings(p, q) =>
            WriteSet(NodeAt(FF.nodes, p)) \cap WriteSet(NodeAt(FF.nodes, q)) = {}

\* C18: serialization round-trips: the operator loaded from the saved file
\* has the header, the tree and the leaf entries of the operator that was
\* saved, and saving it again gives the file byte for byte.
C18_SaveLoadSave ==
    /\ hout.exc /= "SerializationError"
    /\ FF2 /= NoOperator =>
          /\ file = Save(FF)
          /\ FF2 = FF
          /\ Save(FF2) = file

\* an operator with a split block below the root, a dense leaf and a child
\* whose indices are not consecutive has been saved and loaded
C18_Witness ==
    /\ FF2 /= NoOperator
    /\ file = Save(FF)
    /\ \E n \in InternalNodes(FF.nodes) : n.path /= <<>>
    /\ \E n \in FF.nodes : n.tag = "dense"
    /\ \E n \in FF.nodes : Len(n.rows) = 2 /\ n.rows[2] /= n.rows[1] + 1

Running == asm.pc = "run" \/ ap.pc = "run"

\* C19: cooperative cancellation: once the signal is raised while assembly
\* or the product is running no further block is taken, the call ends with
\* Cancelled, and nothing partial is handed to the caller: no operator of an
\* interrupted assembly, no entries of an interrupted y; a call is reported
\* as Cancelled only when the signal was raised.
C19_Cancellation ==
    /\ [](/\ hout.exc = "Cancelled" => cancel /\ hout.val = <<>> /\ ~Running
          /\ FF /= NoOperator => Complete(FF))
    /\ [][/\ (cancel /\ asm.pc = "run") =>
                asm' = IdleAsm /\ hout' = Raise("Cancelled") /\ FF' = FF
          /\ (cancel /\ ap.pc = "run") =>
                \/ ap'.queue = ap.queue /\ ap'.pc = "run"
                \/ ap' = IdleAp /\ hout' = Raise("Cancelled")]_vars
    /\ (cancel /\ Running) ~> (hout.exc = "Cancelled" /\ ~Running)

\* a product was cancelled: the caller holds the error, no entry of y, and
\* the operator as it was assembled
C19_Witness ==
    /\ hout = Raise("Cancelled")
    /\ cancel
    /\ FF /= NoOperator

\* C24: compute_T and solve_kernel_system never modify the vector the caller
\* passed (E, b): the array the caller holds, heap[1], has the same entries
\* after every step of the call, also when the first product L@(rho*b) is
\* zero and the loop is skipped.
C24_InputUnchanged == [][heap /= <<>> => heap'[1] = heap[1]]_vars

RayTestSymmetric ==
    \A i, j \in Faces :
        P[i] /= P[j] =>
            ((firstHit[<<P[i], P[j]>>] = j) <=> (firstHit[<<P[j], P[i]>>] = i))

\* C26: the visibility relation is symmetric: for every pair of faces i, j
\* and both values of oriented, get_visibility_matrix()[i, j] equals
\* get_visibility_matrix()[j, i], provided the ray test between the two
\* centroids is symmetric.
C26_VisibilitySymmetric ==
    (call.op = "get_visibility_matrix" /\ RayTestSymmetric) =>
        /\ ret.kind = "ok"
        /\ \A i, j \in Faces : ret.val[i][j] = ret.val[j][i]

====
